---- MODULE Spec2Model ----
(***************************************************************************)
(* Model of the FilesPrivateChaincode of Inter-Agency-Network/main.go: a   *)
(* registry of "file" assets kept in two private data collections          *)
(* ("collectionFiles", the shared partition, and                           *)
(* "collectionFilePrivateDetails", the restricted partition) plus an       *)
(* ipfshash~name composite-key index stored in collectionFiles.            *)
(*                                                                         *)
(* Strings that the code inspects (names, hashes, owners, keys) are        *)
(* sequences of Unicode code points, so that emptiness, the U+0000 key     *)
(* namespace of composite keys and the key order are what they are in the  *)
(* program. Constant tags (function names, JSON field names, docType       *)
(* values, collection names, message texts) are TLA+ strings.              *)
(*                                                                         *)
(* A byte string is Raw(bytes) when it is not a JSON document and          *)
(* Json(obj) when it is the JSON encoding of the object obj (a function    *)
(* from field names to values).                                            *)
(***************************************************************************)
EXTENDS Integers, Sequences, FiniteSets, TLC

VARIABLES
    shared,      \* collectionFiles: key -> stored bytes
    restricted,  \* collectionFilePrivateDetails: key -> stored bytes
    last         \* the last invocation: function, inputs, stub calls, response

vars == <<shared, restricted, last>>

---------------------------------------------------------------------------
(* Bounds of the model *)

MaxTimestamp == 1
MaxFolio == 1
MaxArgs == 3

---------------------------------------------------------------------------
(* Byte strings and JSON *)

Raw(bytes) == [json |-> FALSE, bytes |-> bytes]
Json(obj) == [json |-> TRUE, obj |-> obj]

\* len(b) == 0 of a []byte (a JSON document is never empty)
IsEmptyBytes(b) == ~b.json /\ b.bytes = <<>>

\* the nil []byte
Nil == Raw(<<>>)

\* a struct field decoded by encoding/json: the value under the field's tag,
\* the zero value when the document has no such member
Field(obj, tag, zero) == IF tag \in DOMAIN obj THEN obj[tag] ELSE zero

\* json.Unmarshal succeeds on a JSON object only
UnmarshalOk(b) == b.json

---------------------------------------------------------------------------
(* The structs of the program *)

\* type file struct, as json.Marshal writes it
MarshalFile(f) ==
    Json([docType |-> f.ObjectType, name |-> f.Name, ipfshash |-> f.IPFShash,
          timestamp |-> f.Timestamp, owner |-> f.Owner])

\* json.Unmarshal into a file struct
UnmarshalFile(b) ==
    [ObjectType |-> Field(b.obj, "docType", ""),
     Name       |-> Field(b.obj, "name", <<>>),
     IPFShash   |-> Field(b.obj, "ipfshash", <<>>),
     Timestamp  |-> Field(b.obj, "timestamp", 0),
     Owner      |-> Field(b.obj, "owner", <<>>)]

\* type filePrivateDetails struct, as json.Marshal writes it
MarshalFilePrivateDetails(d) ==
    Json([docType |-> d.ObjectType, name |-> d.Name, folio |-> d.Folio])

\* json.Unmarshal into initFile's fileTransientInput
UnmarshalFileTransientInput(b) ==
    [Name      |-> Field(b.obj, "name", <<>>),
     IPFShash  |-> Field(b.obj, "ipfshash", <<>>),
     Timestamp |-> Field(b.obj, "size", 0),
     Owner     |-> Field(b.obj, "owner", <<>>),
     Folio     |-> Field(b.obj, "folio", 0)]

\* json.Unmarshal into delete's fileDeleteTransientInput
UnmarshalFileDeleteTransientInput(b) ==
    [Name |-> Field(b.obj, "name", <<>>)]

\* json.Unmarshal into transferFile's fileTransferTransientInput
UnmarshalFileTransferTransientInput(b) ==
    [Name  |-> Field(b.obj, "name", <<>>),
     Owner |-> Field(b.obj, "owner", <<>>)]

---------------------------------------------------------------------------
(* The chaincode stub (fabric-chaincode-go shim), as the program calls it *)

collectionFiles == "collectionFiles"
collectionFilePrivateDetails == "collectionFilePrivateDetails"

\* indexName := "ipfshash~name"
indexName == <<105, 112, 102, 115, 104, 97, 115, 104, 126, 110, 97, 109, 101>>

\* the shim's compositeKeyNamespace and minUnicodeRuneValue: U+0000
compositeKeyNamespace == <<0>>

\* the shim's maxUnicodeRuneValue: utf8.MaxRune
maxUnicodeRune == <<1114111>>

\* validateCompositeKeyAttribute: neither U+0000 nor U+10FFFF in the string
ValidCompositeKeyAttribute(str) ==
    \A i \in 1..Len(str) :
        str[i] # compositeKeyNamespace[1] /\ str[i] # maxUnicodeRune[1]

CompositeKeyOk(objectType, attributes) ==
    /\ ValidCompositeKeyAttribute(objectType)
    /\ \A i \in 1..Len(attributes) : ValidCompositeKeyAttribute(attributes[i])

RECURSIVE JoinAttributes(_)
JoinAttributes(attributes) ==
    IF attributes = <<>> THEN <<>>
    ELSE Head(attributes) \o compositeKeyNamespace \o JoinAttributes(Tail(attributes))

\* stub.CreateCompositeKey, when CompositeKeyOk
CreateCompositeKey(objectType, attributes) ==
    compositeKeyNamespace \o objectType \o compositeKeyNamespace
        \o JoinAttributes(attributes)

\* the state a stub read sees: the committed collection
Collection(collection) ==
    IF collection = collectionFiles THEN shared ELSE restricted

\* stub.GetPrivateData: the stored bytes, nil when the key has none
GetPrivateData(collection, key) ==
    IF key \in DOMAIN Collection(collection) THEN Collection(collection)[key] ELSE Nil

\* one stub call of an invocation, and whether the adapter reported success
Call(fn, collection, key, ok) ==
    [fn |-> fn, collection |-> collection, key |-> key, ok |-> ok]

\* a write the adapter accepted into the invocation's write set
PutWrite(collection, key, value) ==
    [del |-> FALSE, collection |-> collection, key |-> key, value |-> value]
DelWrite(collection, key) ==
    [del |-> TRUE, collection |-> collection, key |-> key, value |-> Nil]

\* shim.Success / shim.Error
Success(payload) == [status |-> "OK", message |-> "", payload |-> payload]
Error(msg) == [status |-> "ERROR", message |-> msg, payload |-> Nil]

\* what a handler leaves behind when it returns
Return(resp, calls, writes) == [resp |-> resp, calls |-> calls, writes |-> writes]

---------------------------------------------------------------------------
(* The handlers. Each takes the positional arguments, the transient map    *)
(* and fail, the number of the stub call (1 for the handler's first) at    *)
(* which the adapter reports an error (0: at none), and returns its        *)
(* response, the stub calls it made and the writes the adapter accepted.   *)

\* initFile's validation of the decoded payload, in the order of the code:
\* the message of the first rule broken, "" when none is
fileInputError(fileInput) ==
    IF Len(fileInput.Name) = 0 THEN "name field must be a non-empty string"
    ELSE IF Len(fileInput.IPFShash) = 0 THEN "ipfshash field must be a non-empty string"
    ELSE IF fileInput.Timestamp <= 0 THEN "size field must be a positive integer"
    ELSE IF Len(fileInput.Owner) = 0 THEN "owner field must be a non-empty string"
    ELSE IF fileInput.Folio <= 0 THEN "folio field must be a positive integer"
    ELSE ""

\* a slip: the existence check looks under the hash instead of the name
initFileLookup_ByHash(fileInput) == GetPrivateData(collectionFiles, fileInput.IPFShash)

\* initFile's existence check reads collectionFiles under the payload's name
initFileLookup(fileInput) == GetPrivateData(collectionFiles, fileInput.Name)

\* a slip: the name of the file object is taken from the hash
initFileObject_NameFromHash(fileInput) ==
    [ObjectType |-> "file", Name |-> fileInput.IPFShash, IPFShash |-> fileInput.IPFShash,
     Timestamp |-> fileInput.Timestamp, Owner |-> fileInput.Owner]

\* the file object initFile builds
initFileObject(fileInput) ==
    [ObjectType |-> "file", Name |-> fileInput.Name, IPFShash |-> fileInput.IPFShash,
     Timestamp |-> fileInput.Timestamp, Owner |-> fileInput.Owner]

\* the private details object initFile builds
initFilePrivateDetailsObject(fileInput) ==
    [ObjectType |-> "filePrivateDetails", Name |-> fileInput.Name,
     Folio |-> fileInput.Folio]

\* the attributes of the index key of a file
indexAttributes(file) == <<file.IPFShash, file.Name>>

\* a slip: the private details are put before the file
initFileWrites_DetailsFirst(fileInput) ==
    LET file == initFileObject(fileInput) IN
    <<PutWrite(collectionFilePrivateDetails, fileInput.Name,
               MarshalFilePrivateDetails(initFilePrivateDetailsObject(fileInput))),
      PutWrite(collectionFiles, fileInput.Name, MarshalFile(file)),
      PutWrite(collectionFiles, CreateCompositeKey(indexName, indexAttributes(file)),
               Raw(<<0>>))>>

\* a slip: the index entry is put before the private details
initFileWrites_IndexSecond(fileInput) ==
    LET file == initFileObject(fileInput) IN
    <<PutWrite(collectionFiles, fileInput.Name, MarshalFile(file)),
      PutWrite(collectionFiles, CreateCompositeKey(indexName, indexAttributes(file)),
               Raw(<<0>>)),
      PutWrite(collectionFilePrivateDetails, fileInput.Name,
               MarshalFilePrivateDetails(initFilePrivateDetailsObject(fileInput)))>>

\* a slip: the index entry is put under the name instead of the index key
initFileWrites_IndexUnderName(fileInput) ==
    LET file == initFileObject(fileInput) IN
    <<PutWrite(collectionFiles, fileInput.Name, MarshalFile(file)),
      PutWrite(collectionFilePrivateDetails, fileInput.Name,
               MarshalFilePrivateDetails(initFilePrivateDetailsObject(fileInput))),
      PutWrite(collectionFiles, fileInput.Name, Raw(<<0>>))>>

\* the three writes of initFile, in the order it issues them
initFileWrites(fileInput) ==
    LET file == initFileObject(fileInput) IN
    <<PutWrite(collectionFiles, fileInput.Name, MarshalFile(file)),
      PutWrite(collectionFilePrivateDetails, fileInput.Name,
               MarshalFilePrivateDetails(initFilePrivateDetailsObject(fileInput))),
      PutWrite(collectionFiles, CreateCompositeKey(indexName, indexAttributes(file)),
               Raw(<<0>>))>>

\* initFile - create a new file, store into chaincode state
initFile(args, transMap, fail) ==
    LET fileJsonBytes == transMap["file"]
        fileInput == UnmarshalFileTransientInput(fileJsonBytes)
        fileAsBytes == initFileLookup(fileInput)
        file == initFileObject(fileInput)
        writes == initFileWrites(fileInput)
        getTransient == Call("GetTransient", "", <<>>, fail # 1)
        getFile == Call("GetPrivateData", collectionFiles, fileInput.Name, fail # 2)
        putFile == Call("PutPrivateData", collectionFiles, fileInput.Name, fail # 3)
        putDetails == Call("PutPrivateData", collectionFilePrivateDetails,
                           fileInput.Name, fail # 4)
        putIndex == Call("PutPrivateData", collectionFiles, writes[3].key, fail # 5)
    IN
    IF Len(args) # 0 THEN
        Return(Error("Incorrect number of arguments. Private file data must be passed in transient map."),
               <<>>, <<>>)
    ELSE IF ~getTransient.ok THEN
        Return(Error("Error getting transient: "), <<getTransient>>, <<>>)
    ELSE IF "file" \notin DOMAIN transMap THEN
        Return(Error("file must be a key in the transient map"), <<getTransient>>, <<>>)
    ELSE IF IsEmptyBytes(fileJsonBytes) THEN
        Return(Error("file value in the transient map must be a non-empty JSON string"),
               <<getTransient>>, <<>>)
    ELSE IF ~UnmarshalOk(fileJsonBytes) THEN
        Return(Error("Failed to decode JSON of: "), <<getTransient>>, <<>>)
    ELSE IF fileInputError(fileInput) # "" THEN
        Return(Error(fileInputError(fileInput)), <<getTransient>>, <<>>)
    ELSE IF ~getFile.ok THEN
        Return(Error("Failed to get file: "), <<getTransient, getFile>>, <<>>)
    ELSE IF fileAsBytes # Nil THEN
        Return(Error("This file already exists: "), <<getTransient, getFile>>, <<>>)
    ELSE IF ~putFile.ok THEN
        Return(Error("err.Error()"), <<getTransient, getFile, putFile>>, <<>>)
    ELSE IF ~putDetails.ok THEN
        Return(Error("err.Error()"),
               <<getTransient, getFile, putFile, putDetails>>, SubSeq(writes, 1, 1))
    ELSE IF ~CompositeKeyOk(indexName, indexAttributes(file)) THEN
        Return(Error("err.Error()"),
               <<getTransient, getFile, putFile, putDetails>>, SubSeq(writes, 1, 2))
    ELSE
        \* the error of the index entry's PutPrivateData is not looked at
        Return(Success(Nil),
               <<getTransient, getFile, putFile, putDetails, putIndex>>,
               IF putIndex.ok THEN writes ELSE SubSeq(writes, 1, 2))

\* readFile - read a file from chaincode state
readFile(args, transMap, fail) ==
    LET name == args[1]
        valAsbytes == GetPrivateData(collectionFiles, name)
        getFile == Call("GetPrivateData", collectionFiles, name, fail # 1)
    IN
    IF Len(args) # 1 THEN
        Return(Error("Incorrect number of arguments. Expecting name of the file to query"),
               <<>>, <<>>)
    ELSE IF ~getFile.ok THEN
        Return(Error("{\"Error\":\"Failed to get state for "), <<getFile>>, <<>>)
    ELSE IF valAsbytes = Nil THEN
        Return(Error("{\"Error\":\"File does not exist: "), <<getFile>>, <<>>)
    ELSE
        Return(Success(valAsbytes), <<getFile>>, <<>>)

\* readFilePrivateDetails - read a file private details from chaincode state
readFilePrivateDetails(args, transMap, fail) ==
    LET name == args[1]
        valAsbytes == GetPrivateData(collectionFilePrivateDetails, name)
        getDetails == Call("GetPrivateData", collectionFilePrivateDetails, name, fail # 1)
    IN
    IF Len(args) # 1 THEN
        Return(Error("Incorrect number of arguments. Expecting name of the file to query"),
               <<>>, <<>>)
    ELSE IF ~getDetails.ok THEN
        Return(Error("{\"Error\":\"Failed to get private details for "), <<getDetails>>, <<>>)
    ELSE IF valAsbytes = Nil THEN
        Return(Error("{\"Error\":\"File private details does not exist: "),
               <<getDetails>>, <<>>)
    ELSE
        Return(Success(valAsbytes), <<getDetails>>, <<>>)

\* stub.GetPrivateDataHash: the fingerprint of the stored bytes, nil when the
\* key has none; two fingerprints are equal exactly when the bytes are
GetPrivateDataHash(collection, key) ==
    IF key \in DOMAIN Collection(collection)
    THEN [hashOf |-> Collection(collection)[key]]
    ELSE Nil

\* a slip: the fingerprint is taken in the collection of the private details
getFileHash_OfPrivateDetails(args, transMap, fail) ==
    LET name == args[1]
        valAsbytes == GetPrivateDataHash(collectionFilePrivateDetails, name)
        getHash == Call("GetPrivateDataHash", collectionFilePrivateDetails, name, fail # 1)
    IN
    IF Len(args) # 1 THEN
        Return(Error("Incorrect number of arguments. Expecting name of the file to query"),
               <<>>, <<>>)
    ELSE IF ~getHash.ok THEN
        Return(Error("{\"Error\":\"Failed to get file private data hash for "),
               <<getHash>>, <<>>)
    ELSE IF valAsbytes = Nil THEN
        Return(Error("{\"Error\":\"File private file data hash does not exist: "),
               <<getHash>>, <<>>)
    ELSE
        Return(Success(valAsbytes), <<getHash>>, <<>>)

\* getFileHash - get file private data hash for collectionFiles
getFileHash(args, transMap, fail) ==
    LET name == args[1]
        valAsbytes == GetPrivateDataHash(collectionFiles, name)
        getHash == Call("GetPrivateDataHash", collectionFiles, name, fail # 1)
    IN
    IF Len(args) # 1 THEN
        Return(Error("Incorrect number of arguments. Expecting name of the file to query"),
               <<>>, <<>>)
    ELSE IF ~getHash.ok THEN
        Return(Error("{\"Error\":\"Failed to get file private data hash for "),
               <<getHash>>, <<>>)
    ELSE IF valAsbytes = Nil THEN
        Return(Error("{\"Error\":\"File private file data hash does not exist: "),
               <<getHash>>, <<>>)
    ELSE
        Return(Success(valAsbytes), <<getHash>>, <<>>)

\* getFilePrivateDetailsHash - get file private data hash for
\* collectionFilePrivateDetails
getFilePrivateDetailsHash(args, transMap, fail) ==
    LET name == args[1]
        valAsbytes == GetPrivateDataHash(collectionFilePrivateDetails, name)
        getHash == Call("GetPrivateDataHash", collectionFilePrivateDetails, name, fail # 1)
    IN
    IF Len(args) # 1 THEN
        Return(Error("Incorrect number of arguments. Expecting name of the file to query"),
               <<>>, <<>>)
    ELSE IF ~getHash.ok THEN
        Return(Error("{\"Error\":\"Failed to get file private details hash for "),
               <<getHash>>, <<>>)
    ELSE IF valAsbytes = Nil THEN
        Return(Error("{\"Error\":\"File private details hash does not exist: "),
               <<getHash>>, <<>>)
    ELSE
        Return(Success(valAsbytes), <<getHash>>, <<>>)

\* a slip: the private details are deleted from the wrong collection
deleteWrites_DetailsInCollectionFiles(fileDeleteInput, fileToDelete) ==
    <<DelWrite(collectionFiles, fileDeleteInput.Name),
      DelWrite(collectionFiles,
               CreateCompositeKey(indexName, indexAttributes(fileToDelete))),
      DelWrite(collectionFiles, fileDeleteInput.Name)>>

\* a slip: the index key is built from (name, hash) instead of (hash, name)
deleteWrites_IndexByNameHash(fileDeleteInput, fileToDelete) ==
    <<DelWrite(collectionFiles, fileDeleteInput.Name),
      DelWrite(collectionFiles,
               CreateCompositeKey(indexName,
                                  <<fileToDelete.Name, fileToDelete.IPFShash>>)),
      DelWrite(collectionFilePrivateDetails, fileDeleteInput.Name)>>

\* a slip: the private details are deleted before the index entry
deleteWrites_DetailsSecond(fileDeleteInput, fileToDelete) ==
    <<DelWrite(collectionFiles, fileDeleteInput.Name),
      DelWrite(collectionFilePrivateDetails, fileDeleteInput.Name),
      DelWrite(collectionFiles,
               CreateCompositeKey(indexName, indexAttributes(fileToDelete)))>>

\* the three deletes of delete, in the order it issues them, for the name of
\* the payload and the file read from collectionFiles
deleteWrites(fileDeleteInput, fileToDelete) ==
    <<DelWrite(collectionFiles, fileDeleteInput.Name),
      DelWrite(collectionFiles,
               CreateCompositeKey(indexName, indexAttributes(fileToDelete))),
      DelWrite(collectionFilePrivateDetails, fileDeleteInput.Name)>>

\* a slip: the bytes are decoded without the test for nil
deleteLookupError_NoNilCheck(valAsbytes) ==
    IF ~UnmarshalOk(valAsbytes) THEN "Failed to decode JSON of: " ELSE ""

\* what delete makes of the bytes it read under the name: the message of its
\* error, "" when it goes on
deleteLookupError(valAsbytes) ==
    IF valAsbytes = Nil THEN "File does not exist: "
    ELSE IF ~UnmarshalOk(valAsbytes) THEN "Failed to decode JSON of: "
    ELSE ""

\* delete - remove a file key/value pair from state
delete(args, transMap, fail) ==
    LET fileDeleteJsonBytes == transMap["file_delete"]
        fileDeleteInput == UnmarshalFileDeleteTransientInput(fileDeleteJsonBytes)
        valAsbytes == GetPrivateData(collectionFiles, fileDeleteInput.Name)
        fileToDelete == UnmarshalFile(valAsbytes)
        writes == deleteWrites(fileDeleteInput, fileToDelete)
        getTransient == Call("GetTransient", "", <<>>, fail # 1)
        getFile == Call("GetPrivateData", collectionFiles, fileDeleteInput.Name, fail # 2)
        delFile == Call("DelPrivateData", collectionFiles, fileDeleteInput.Name, fail # 3)
        delIndex == Call("DelPrivateData", collectionFiles, writes[2].key, fail # 4)
        delDetails == Call("DelPrivateData", collectionFilePrivateDetails,
                           fileDeleteInput.Name, fail # 5)
    IN
    IF Len(args) # 0 THEN
        Return(Error("Incorrect number of arguments. Private file name must be passed in transient map."),
               <<>>, <<>>)
    ELSE IF ~getTransient.ok THEN
        Return(Error("Error getting transient: "), <<getTransient>>, <<>>)
    ELSE IF "file_delete" \notin DOMAIN transMap THEN
        Return(Error("file_delete must be a key in the transient map"),
               <<getTransient>>, <<>>)
    ELSE IF IsEmptyBytes(fileDeleteJsonBytes) THEN
        Return(Error("file_delete value in the transient map must be a non-empty JSON string"),
               <<getTransient>>, <<>>)
    ELSE IF ~UnmarshalOk(fileDeleteJsonBytes) THEN
        Return(Error("Failed to decode JSON of: "), <<getTransient>>, <<>>)
    ELSE IF Len(fileDeleteInput.Name) = 0 THEN
        Return(Error("name field must be a non-empty string"), <<getTransient>>, <<>>)
    ELSE IF ~getFile.ok THEN
        Return(Error("Failed to get state for "), <<getTransient, getFile>>, <<>>)
    ELSE IF deleteLookupError(valAsbytes) # "" THEN
        Return(Error(deleteLookupError(valAsbytes)), <<getTransient, getFile>>, <<>>)
    ELSE IF ~delFile.ok THEN
        Return(Error("Failed to delete state:"), <<getTransient, getFile, delFile>>, <<>>)
    ELSE IF ~CompositeKeyOk(indexName, indexAttributes(fileToDelete)) THEN
        Return(Error("err.Error()"), <<getTransient, getFile, delFile>>,
               SubSeq(writes, 1, 1))
    ELSE IF ~delIndex.ok THEN
        Return(Error("Failed to delete state:"),
               <<getTransient, getFile, delFile, delIndex>>, SubSeq(writes, 1, 1))
    ELSE IF ~delDetails.ok THEN
        Return(Error("err.Error()"),
               <<getTransient, getFile, delFile, delIndex, delDetails>>,
               SubSeq(writes, 1, 2))
    ELSE
        Return(Success(Nil),
               <<getTransient, getFile, delFile, delIndex, delDetails>>, writes)

\* a slip: the rule for the owner is missing
fileTransferInputError_NoOwnerRule(fileTransferInput) ==
    IF Len(fileTransferInput.Name) = 0 THEN "name field must be a non-empty string"
    ELSE ""

\* transferFile's validation of the decoded payload
fileTransferInputError(fileTransferInput) ==
    IF Len(fileTransferInput.Name) = 0 THEN "name field must be a non-empty string"
    ELSE IF Len(fileTransferInput.Owner) = 0 THEN "owner field must be a non-empty string"
    ELSE ""

\* what transferFile makes of the bytes it read under the name
transferLookupError(fileAsBytes) ==
    IF fileAsBytes = Nil THEN "File does not exist: "
    ELSE IF ~UnmarshalOk(fileAsBytes) THEN "err.Error()"
    ELSE ""

\* a slip: the file is built anew from the payload instead of decoded
fileToTransferOf_FreshStruct(fileAsBytes, fileTransferInput) ==
    [ObjectType |-> "file", Name |-> fileTransferInput.Name, IPFShash |-> <<>>,
     Timestamp |-> 0, Owner |-> fileTransferInput.Owner]

\* the file transferFile writes back: the one it read, with the new owner
fileToTransferOf(fileAsBytes, fileTransferInput) ==
    [UnmarshalFile(fileAsBytes) EXCEPT !.Owner = fileTransferInput.Owner]

\* the write of transferFile: under the name of the file it read
transferFileWrite(fileToTransfer) ==
    PutWrite(collectionFiles, fileToTransfer.Name, MarshalFile(fileToTransfer))

\* transfer a file by setting a new owner name on the file
transferFile(args, transMap, fail) ==
    LET fileOwnerJsonBytes == transMap["file_owner"]
        fileTransferInput == UnmarshalFileTransferTransientInput(fileOwnerJsonBytes)
        fileAsBytes == GetPrivateData(collectionFiles, fileTransferInput.Name)
        fileToTransfer == fileToTransferOf(fileAsBytes, fileTransferInput)
        getTransient == Call("GetTransient", "", <<>>, fail # 1)
        getFile == Call("GetPrivateData", collectionFiles, fileTransferInput.Name, fail # 2)
        \* the shim refuses to put under an empty key
        putFile == Call("PutPrivateData", collectionFiles, fileToTransfer.Name,
                        fail # 3 /\ Len(fileToTransfer.Name) # 0)
    IN
    IF Len(args) # 0 THEN
        Return(Error("Incorrect number of arguments. Private file data must be passed in transient map."),
               <<>>, <<>>)
    ELSE IF ~getTransient.ok THEN
        Return(Error("Error getting transient: "), <<getTransient>>, <<>>)
    ELSE IF "file_owner" \notin DOMAIN transMap THEN
        Return(Error("file_owner must be a key in the transient map"),
               <<getTransient>>, <<>>)
    ELSE IF IsEmptyBytes(fileOwnerJsonBytes) THEN
        Return(Error("file_owner value in the transient map must be a non-empty JSON string"),
               <<getTransient>>, <<>>)
    ELSE IF ~UnmarshalOk(fileOwnerJsonBytes) THEN
        Return(Error("Failed to decode JSON of: "), <<getTransient>>, <<>>)
    ELSE IF fileTransferInputError(fileTransferInput) # "" THEN
        Return(Error(fileTransferInputError(fileTransferInput)), <<getTransient>>, <<>>)
    ELSE IF ~getFile.ok THEN
        Return(Error("Failed to get file:"), <<getTransient, getFile>>, <<>>)
    ELSE IF transferLookupError(fileAsBytes) # "" THEN
        Return(Error(transferLookupError(fileAsBytes)), <<getTransient, getFile>>, <<>>)
    ELSE IF ~putFile.ok THEN
        Return(Error("err.Error()"), <<getTransient, getFile, putFile>>, <<>>)
    ELSE
        Return(Success(Nil), <<getTransient, getFile, putFile>>,
               <<transferFileWrite(fileToTransfer)>>)

\* the order of the keys of a collection: bytewise on UTF-8, which is the
\* order of the code point sequences
RECURSIVE KeyLess(_, _)
KeyLess(k1, k2) ==
    IF k2 = <<>> THEN FALSE
    ELSE IF k1 = <<>> THEN TRUE
    ELSE IF k1[1] # k2[1] THEN k1[1] < k2[1]
    ELSE KeyLess(Tail(k1), Tail(k2))

\* the keys of a set in ascending order
RECURSIVE SortKeys(_)
SortKeys(keys) ==
    IF keys = {} THEN <<>>
    ELSE LET first == CHOOSE k \in keys : \A o \in keys \ {k} : KeyLess(k, o)
         IN <<first>> \o SortKeys(keys \ {first})

\* the shim's emptyKeySubstitute, used for an empty start key
emptyKeySubstitute == <<1>>

\* the shim's validateSimpleKeys: no key may start with U+0000
ValidSimpleKey(key) == Len(key) = 0 \/ key[1] # compositeKeyNamespace[1]

\* stub.GetPrivateDataByRange, when the keys are valid: the keys from
\* startKey (inclusive) to endKey (exclusive, none when empty), ascending
GetPrivateDataByRange(collection, startKey, endKey) ==
    LET from == IF startKey = <<>> THEN emptyKeySubstitute ELSE startKey
    IN SortKeys({k \in DOMAIN Collection(collection) :
                    /\ ~KeyLess(k, from)
                    /\ (endKey = <<>> \/ KeyLess(k, endKey))})

\* a slip: the last member of the iteration is not written to the buffer
queryResults_DropLast(resultsIterator) ==
    [i \in 1..(Len(resultsIterator) - 1) |->
        [Key |-> resultsIterator[i],
         Record |-> GetPrivateData(collectionFiles, resultsIterator[i])]]

\* the loop of getFilesByRange: one {"Key", "Record"} member for each key the
\* iterator yields, in the iterator's order, with the bytes stored under it
queryResults(resultsIterator) ==
    [i \in 1..Len(resultsIterator) |->
        [Key |-> resultsIterator[i],
         Record |-> GetPrivateData(collectionFiles, resultsIterator[i])]]

\* getFilesByRange performs a range query based on the start and end keys
getFilesByRange(args, transMap, fail) ==
    LET startKey == args[1]
        endKey == args[2]
        resultsIterator == GetPrivateDataByRange(collectionFiles, startKey, endKey)
        getRange == Call("GetPrivateDataByRange", collectionFiles, startKey,
                         fail # 1 /\ ValidSimpleKey(startKey) /\ ValidSimpleKey(endKey))
        next == Call("Next", collectionFiles, startKey, fail # 2)
        buffer == queryResults(resultsIterator)
    IN
    IF Len(args) < 2 THEN
        Return(Error("Incorrect number of arguments. Expecting 2"), <<>>, <<>>)
    ELSE IF ~getRange.ok THEN
        Return(Error("err.Error()"), <<getRange>>, <<>>)
    ELSE IF Len(resultsIterator) > 0 /\ ~next.ok THEN
        Return(Error("err.Error()"), <<getRange, next>>, <<>>)
    ELSE
        Return(Success([results |-> buffer]), <<getRange>>, <<>>)

\* a slip: the case of readFile calls the handler of delete
Invoke_ReadFileAsDelete(function, args, transMap, fail) ==
    CASE function = "initFile" -> initFile(args, transMap, fail)
      [] function = "readFile" -> delete(args, transMap, fail)
      [] function = "readFilePrivateDetails" -> readFilePrivateDetails(args, transMap, fail)
      [] function = "transferFile" -> transferFile(args, transMap, fail)
      [] function = "delete" -> delete(args, transMap, fail)
      [] function = "getFilesByRange" -> getFilesByRange(args, transMap, fail)
      [] function = "getFileHash" -> getFileHash(args, transMap, fail)
      [] function = "getFilePrivateDetailsHash" ->
            getFilePrivateDetailsHash(args, transMap, fail)
      [] OTHER -> Return(Error("Received unknown function invocation"), <<>>, <<>>)

\* Invoke - the entry point for invocations
Invoke(function, args, transMap, fail) ==
    CASE function = "initFile" -> initFile(args, transMap, fail)
      [] function = "readFile" -> readFile(args, transMap, fail)
      [] function = "readFilePrivateDetails" -> readFilePrivateDetails(args, transMap, fail)
      [] function = "transferFile" -> transferFile(args, transMap, fail)
      [] function = "delete" -> delete(args, transMap, fail)
      [] function = "getFilesByRange" -> getFilesByRange(args, transMap, fail)
      [] function = "getFileHash" -> getFileHash(args, transMap, fail)
      [] function = "getFilePrivateDetailsHash" ->
            getFilePrivateDetailsHash(args, transMap, fail)
      [] OTHER -> Return(Error("Received unknown function invocation"), <<>>, <<>>)

---------------------------------------------------------------------------
(* The ledger: an invocation's writes are committed together when it      *)
(* returns success and discarded when it returns an error.                 *)

Write(state, w) ==
    IF w.del THEN [k \in DOMAIN state \ {w.key} |-> state[k]]
    ELSE [k \in DOMAIN state \cup {w.key} |-> IF k = w.key THEN w.value ELSE state[k]]

RECURSIVE ApplyWrites(_, _, _)
ApplyWrites(state, writes, collection) ==
    IF writes = <<>> THEN state
    ELSE ApplyWrites(IF Head(writes).collection = collection
                        THEN Write(state, Head(writes)) ELSE state,
                     Tail(writes), collection)

Committed(r) == IF r.resp.status = "OK" THEN r.writes ELSE <<>>

---------------------------------------------------------------------------
(* The inputs the model draws from *)

fileA == <<97>>
fileB == <<98>>
hash1 == <<120>>
hash2 == <<121>>
orgA == <<65>>
orgB == <<66>>
\* a name that is itself the index key of (hash1, fileA)
indexKeyName == CreateCompositeKey(indexName, <<hash1, fileA>>)

InNames == {<<>>, fileA, fileB, indexKeyName}
InHashes == {<<>>, hash1, hash2}
InOwners == {<<>>, orgA, orgB}
InTimestamps == (0 - 1)..MaxTimestamp
InFolios == 0..MaxFolio

\* the transient map with no entry, and with one entry
NoTransient == [k \in {} |-> Nil]
Transient(key, bytes) == [k \in {key} |-> bytes]

\* bytes that are no JSON document
Garbage == Raw(<<123>>)

\* create payloads that give the timestamp under "size", the tag initFile
\* reads: every valid one, and every combination of invalid fields
ValidPayloads ==
    {[name |-> n, ipfshash |-> h, size |-> t, owner |-> o, folio |-> f] :
        n \in InNames \ {<<>>}, h \in InHashes \ {<<>>}, t \in 1..MaxTimestamp,
        o \in InOwners \ {<<>>}, f \in 1..MaxFolio}
InvalidPayloads ==
    {[name |-> n, ipfshash |-> h, size |-> t, owner |-> o, folio |-> f] :
        n \in {<<>>, fileA}, h \in {<<>>, hash1}, t \in (0 - 1)..1,
        o \in {<<>>, orgA}, f \in 0..1}
SizePayloads == ValidPayloads \cup InvalidPayloads

\* create payloads that give the timestamp under "timestamp", all else valid
TimestampPayloads ==
    {[name |-> n, ipfshash |-> hash1, timestamp |-> t, owner |-> orgA, folio |-> f] :
        n \in {fileA, fileB}, t \in 0..MaxTimestamp, f \in 1..MaxFolio}

TransferPayloads == {[name |-> n, owner |-> o] : n \in InNames, o \in InOwners}
DeletePayloads == {[name |-> n] : n \in InNames}

ValuesOf(payloads) == {Raw(<<>>), Garbage} \cup {Json(p) : p \in payloads}

FileMaps == {Transient("file", b) : b \in ValuesOf(SizePayloads \cup TimestampPayloads)}
FileOwnerMaps == {Transient("file_owner", b) : b \in ValuesOf(TransferPayloads)}
FileDeleteMaps == {Transient("file_delete", b) : b \in ValuesOf(DeletePayloads)}

\* a well-formed map for each transient key
SampleMap(key) ==
    CASE key = "file" ->
            Transient("file", Json([name |-> fileA, ipfshash |-> hash1, size |-> 1,
                                    owner |-> orgA, folio |-> 1]))
      [] key = "file_owner" ->
            Transient("file_owner", Json([name |-> fileA, owner |-> orgB]))
      [] key = "file_delete" -> Transient("file_delete", Json([name |-> fileA]))

\* positional arguments: up to two keys, then fillers the handlers never read
ArgKeys == {<<>>, fileA, fileB, indexKeyName}
Fillers(n) == [i \in 1..n |-> fileB]
\* the bounds of a scan of the index entries of hash h: from the index key of
\* (h, "") to the index key of (h, "\xff")
IndexScanBounds(h) ==
    <<CreateCompositeKey(indexName, <<h, <<>> >>),
      CreateCompositeKey(indexName, <<h, <<255>> >>)>>
ArgLists ==
    {<<>>} \cup {<<k>> : k \in ArgKeys}
        \cup {<<k1, k2>> \o Fillers(n) : k1 \in ArgKeys, k2 \in ArgKeys, n \in 0..(MaxArgs - 2)}
        \cup {IndexScanBounds(h) : h \in InHashes \ {<<>>}}

\* a side-channel call: no positional argument and a map of the handler's
\* key, of another key or none, or positional arguments beside a well-formed map
SideChannelInputs(key, maps) ==
    {<<(<<>>), m>> : m \in maps \cup {NoTransient, SampleMap("file"), SampleMap("file_owner")}}
        \cup {<<a, SampleMap(key)>> : a \in ArgLists \ {<<>>}}

\* a positional call, with or without a transient map
PositionalInputs ==
    {<<a, NoTransient>> : a \in ArgLists} \cup {<<(<<>>), SampleMap("file_delete")>>}

\* the stub call at which the adapter reports an error (0: none), up to the
\* number of stub calls the handler makes
StubFailures(function) ==
    CASE function \in {"initFile", "delete"} -> 0..5
      [] function = "transferFile" -> 0..3
      [] function = "getFilesByRange" -> 0..2
      [] function \in {"readFile", "readFilePrivateDetails", "getFileHash",
                       "getFilePrivateDetailsHash"} -> 0..1
      [] OTHER -> {0}

---------------------------------------------------------------------------
(* The state machine. The peer runs one invocation at a time: last holds   *)
(* the invocation whose response is being delivered, Idle when there is    *)
(* none.                                                                   *)

Idle == [function |-> "", args |-> <<>>, transMap |-> NoTransient,
         resp |-> Success(Nil), calls |-> <<>>, writes |-> <<>>]

Init ==
    /\ shared = [k \in {} |-> Nil]
    /\ restricted = [k \in {} |-> Nil]
    /\ last = Idle

\* the record an invocation leaves
Invoked(function, args, transMap, r) ==
    [function |-> function, args |-> args, transMap |-> transMap,
     resp |-> r.resp, calls |-> r.calls, writes |-> r.writes]

\* One action for each function name: the invocation from proposal to commit.
InvokeInitFile ==
    /\ last = Idle
    /\ \E in \in SideChannelInputs("file", FileMaps), fail \in StubFailures("initFile") :
          LET r == Invoke("initFile", in[1], in[2], fail) IN
          /\ shared' = ApplyWrites(shared, Committed(r), collectionFiles)
          /\ restricted' =
                ApplyWrites(restricted, Committed(r), collectionFilePrivateDetails)
          /\ last' = Invoked("initFile", in[1], in[2], r)

InvokeTransferFile ==
    /\ last = Idle
    /\ \E in \in SideChannelInputs("file_owner", FileOwnerMaps), fail \in StubFailures("transferFile") :
          LET r == Invoke("transferFile", in[1], in[2], fail) IN
          /\ shared' = ApplyWrites(shared, Committed(r), collectionFiles)
          /\ restricted' =
                ApplyWrites(restricted, Committed(r), collectionFilePrivateDetails)
          /\ last' = Invoked("transferFile", in[1], in[2], r)

InvokeDelete ==
    /\ last = Idle
    /\ \E in \in SideChannelInputs("file_delete", FileDeleteMaps), fail \in StubFailures("delete") :
          LET r == Invoke("delete", in[1], in[2], fail) IN
          /\ shared' = ApplyWrites(shared, Committed(r), collectionFiles)
          /\ restricted' =
                ApplyWrites(restricted, Committed(r), collectionFilePrivateDetails)
          /\ last' = Invoked("delete", in[1], in[2], r)

InvokeReadFile ==
    /\ last = Idle
    /\ \E in \in PositionalInputs, fail \in StubFailures("readFile") :
          LET r == Invoke("readFile", in[1], in[2], fail) IN
          /\ shared' = ApplyWrites(shared, Committed(r), collectionFiles)
          /\ restricted' =
                ApplyWrites(restricted, Committed(r), collectionFilePrivateDetails)
          /\ last' = Invoked("readFile", in[1], in[2], r)

InvokeReadFilePrivateDetails ==
    /\ last = Idle
    /\ \E in \in PositionalInputs, fail \in StubFailures("readFilePrivateDetails") :
          LET r == Invoke("readFilePrivateDetails", in[1], in[2], fail) IN
          /\ shared' = ApplyWrites(shared, Committed(r), collectionFiles)
          /\ restricted' =
                ApplyWrites(restricted, Committed(r), collectionFilePrivateDetails)
          /\ last' = Invoked("readFilePrivateDetails", in[1], in[2], r)

InvokeGetFilesByRange ==
    /\ last = Idle
    /\ \E in \in PositionalInputs, fail \in StubFailures("getFilesByRange") :
          LET r == Invoke("getFilesByRange", in[1], in[2], fail) IN
          /\ shared' = ApplyWrites(shared, Committed(r), collectionFiles)
          /\ restricted' =
                ApplyWrites(restricted, Committed(r), collectionFilePrivateDetails)
          /\ last' = Invoked("getFilesByRange", in[1], in[2], r)

InvokeGetFileHash ==
    /\ last = Idle
    /\ \E in \in PositionalInputs, fail \in StubFailures("getFileHash") :
          LET r == Invoke("getFileHash", in[1], in[2], fail) IN
          /\ shared' = ApplyWrites(shared, Committed(r), collectionFiles)
          /\ restricted' =
                ApplyWrites(restricted, Committed(r), collectionFilePrivateDetails)
          /\ last' = Invoked("getFileHash", in[1], in[2], r)

InvokeGetFilePrivateDetailsHash ==
    /\ last = Idle
    /\ \E in \in PositionalInputs, fail \in StubFailures("getFilePrivateDetailsHash") :
          LET r == Invoke("getFilePrivateDetailsHash", in[1], in[2], fail) IN
          /\ shared' = ApplyWrites(shared, Committed(r), collectionFiles)
          /\ restricted' =
                ApplyWrites(restricted, Committed(r), collectionFilePrivateDetails)
          /\ last' = Invoked("getFilePrivateDetailsHash", in[1], in[2], r)

InvokeUnknown ==
    /\ last = Idle
    /\ \E in \in PositionalInputs, fail \in StubFailures("unknownFunction") :
          LET r == Invoke("unknownFunction", in[1], in[2], fail) IN
          /\ shared' = ApplyWrites(shared, Committed(r), collectionFiles)
          /\ restricted' =
                ApplyWrites(restricted, Committed(r), collectionFilePrivateDetails)
          /\ last' = Invoked("unknownFunction", in[1], in[2], r)

\* the response has been delivered; the peer takes the next proposal
Deliver ==
    /\ last # Idle
    /\ last' = Idle
    /\ UNCHANGED <<shared, restricted>>

Next ==
    \/ InvokeInitFile
    \/ InvokeTransferFile
    \/ InvokeDelete
    \/ InvokeReadFile
    \/ InvokeReadFilePrivateDetails
    \/ InvokeGetFilesByRange
    \/ InvokeGetFileHash
    \/ InvokeGetFilePrivateDetailsHash
    \/ InvokeUnknown
    \/ Deliver

Spec == Init /\ [][Next]_vars

---------------------------------------------------------------------------
(* The vocabulary of the specification, in terms of the program *)

\* a SharedRecord / RestrictedRecord: a JSON document of that docType
IsSharedRecord(v) == v.json /\ Field(v.obj, "docType", "") = "file"
IsRestrictedRecord(v) == v.json /\ Field(v.obj, "docType", "") = "filePrivateDetails"
HasSharedRecord(state, k) == k \in DOMAIN state /\ IsSharedRecord(state[k])
HasRestrictedRecord(state, k) == k \in DOMAIN state /\ IsRestrictedRecord(state[k])

\* the IndexEntry key of (contentHash, name)
IndexKey(h, n) == CreateCompositeKey(indexName, <<h, n>>)

\* the names and hashes an asset of the model can have
AssetNames == InNames \ {<<>>, indexKeyName}
AssetHashes == InHashes \ {<<>>}

\* the error categories, by the messages of the program
ArgumentCountMessages ==
    {"Incorrect number of arguments. Private file data must be passed in transient map.",
     "Incorrect number of arguments. Private file name must be passed in transient map.",
     "Incorrect number of arguments. Expecting name of the file to query",
     "Incorrect number of arguments. Expecting 2"}
ProtocolError(resp) ==
    /\ resp.status = "ERROR"
    /\ resp.message \in ArgumentCountMessages \cup {"Received unknown function invocation"}
AlreadyExists(resp) ==
    resp.status = "ERROR" /\ resp.message = "This file already exists: "
NotFound(resp) ==
    /\ resp.status = "ERROR"
    /\ resp.message \in {"File does not exist: ",
                          "{\"Error\":\"File does not exist: ",
                          "{\"Error\":\"File private details does not exist: ",
                          "{\"Error\":\"File private file data hash does not exist: ",
                          "{\"Error\":\"File private details hash does not exist: "}
ValidationError(resp, field) ==
    /\ resp.status = "ERROR"
    /\ resp.message =
          CASE field = "name" -> "name field must be a non-empty string"
            [] field = "ipfshash" -> "ipfshash field must be a non-empty string"
            [] field = "timestamp" -> "timestamp field must be a positive integer"
            [] field = "size" -> "size field must be a positive integer"
            [] field = "owner" -> "owner field must be a non-empty string"
            [] field = "folio" -> "folio field must be a positive integer"

\* the invocation l was the side-channel call of function with a JSON payload
\* under key, and the adapter reported no error to it
SideChannelCall(l, function, key) ==
    /\ l.function = function
    /\ l.args = <<>>
    /\ key \in DOMAIN l.transMap
    /\ l.transMap[key].json
AllCallsOk(l) == \A i \in 1..Len(l.calls) : l.calls[i].ok
Payload(l, key) == l.transMap[key].obj
Succeeded(l, function) == l.function = function /\ l.resp.status = "OK"

---------------------------------------------------------------------------
(* The claims *)

\* C1 (co-lifecycle, I1): with each invocation's writes applied all or
\* nothing, a SharedRecord is stored at key N of the shared partition exactly
\* when a RestrictedRecord is stored at key N of the restricted partition;
\* after a successful create of N both readShared(N) and readRestricted(N)
\* succeed, after a successful delete of N both fail NotFound.
C1_CoLifecycle ==
    /\ \A k \in DOMAIN shared \cup DOMAIN restricted :
          HasSharedRecord(shared, k) <=> HasRestrictedRecord(restricted, k)
    /\ Succeeded(last, "initFile") =>
          LET n == Payload(last, "file").name IN
          /\ readFile(<<n>>, NoTransient, 0).resp.status = "OK"
          /\ readFilePrivateDetails(<<n>>, NoTransient, 0).resp.status = "OK"
    /\ Succeeded(last, "delete") =>
          LET n == Payload(last, "file_delete").name IN
          /\ NotFound(readFile(<<n>>, NoTransient, 0).resp)
          /\ NotFound(readFilePrivateDetails(<<n>>, NoTransient, 0).resp)

\* C1's case: a delete has succeeded while another asset is alive
C1_Witness ==
    /\ Succeeded(last, "delete")
    /\ \E k \in DOMAIN shared : HasSharedRecord(shared, k) /\ HasRestrictedRecord(restricted, k)

\* C2 (index consistency, I2): with each invocation's writes applied all or
\* nothing, a SharedRecord with contentHash H is stored at key N exactly when
\* the IndexEntry key of (H, N) exists in the shared partition.
C2_IndexConsistency ==
    \A n \in AssetNames, h \in AssetHashes :
        (HasSharedRecord(shared, n) /\ shared[n].obj.ipfshash = h)
            <=> IndexKey(h, n) \in DOMAIN shared

\* the fields of a create payload that initFile's validation accepts
ValidCreatePayload(p) ==
    /\ Field(p, "name", <<>>) # <<>>
    /\ Field(p, "ipfshash", <<>>) # <<>>
    /\ Field(p, "size", 0) > 0
    /\ Field(p, "owner", <<>>) # <<>>
    /\ Field(p, "folio", 0) > 0

TimestampOf(p) ==
    IF "timestamp" \in DOMAIN p THEN p.timestamp ELSE Field(p, "size", 0)

\* the fields of a create payload that break a validation rule
OffendingFields(p) ==
    {f \in {"name", "ipfshash", "owner"} : Field(p, f, <<>>) = <<>>}
        \cup (IF TimestampOf(p) <= 0 THEN {"timestamp"} ELSE {})
        \cup (IF Field(p, "folio", 0) <= 0 THEN {"folio"} ELSE {})

\* an invocation that wrote nothing: no put or delete was issued
NoLedgerWrite(l) ==
    /\ l.writes = <<>>
    /\ \A i \in 1..Len(l.calls) :
          l.calls[i].fn \notin {"PutPrivateData", "DelPrivateData"}

\* C4 (validate before write): a create whose payload has an empty name,
\* contentHash or owner, or a timestamp or folio <= 0, fails with a
\* ValidationError naming an offending field (timestamp for a non-positive
\* timestamp) and performs no ledger write.
C4_ValidateBeforeWrite ==
    (/\ SideChannelCall(last, "initFile", "file")
     /\ AllCallsOk(last)
     /\ OffendingFields(Payload(last, "file")) # {})
    => (/\ \E f \in OffendingFields(Payload(last, "file")) : ValidationError(last.resp, f)
        /\ NoLedgerWrite(last))

\* C5 (create/read round trip): a create on an unused name whose payload
\* gives name, contentHash, owner, folio and a positive timestamp under the
\* field name timestamp succeeds; readShared then returns the record of kind
\* "file" with exactly that name, contentHash, timestamp and owner, and
\* readRestricted the record of kind "fileDetails" with that name and folio
\* (the reads return the bytes stored under the name).
C5_CreateReadRoundTrip ==
    [][(/\ SideChannelCall(last', "initFile", "file")
        /\ AllCallsOk(last')
        /\ "timestamp" \in DOMAIN Payload(last', "file")
        /\ OffendingFields(Payload(last', "file")) = {}
        /\ Payload(last', "file").name \notin DOMAIN shared)
       => LET p == Payload(last', "file") IN
          /\ last'.resp.status = "OK"
          /\ p.name \in DOMAIN shared'
          /\ shared'[p.name] =
                Json([docType |-> "file", name |-> p.name, ipfshash |-> p.ipfshash,
                      timestamp |-> p.timestamp, owner |-> p.owner])
          /\ p.name \in DOMAIN restricted'
          /\ restricted'[p.name] =
                Json([docType |-> "fileDetails", name |-> p.name, folio |-> p.folio])]_vars

\* state is the same in old and new at every key outside keys
SameOutside(old, new, keys) ==
    /\ DOMAIN new \ keys = DOMAIN old \ keys
    /\ \A k \in DOMAIN old \ keys : new[k] = old[k]

\* C6 (owner-only mutation, I3): a successful transfer(name=N, owner=O)
\* changes only the owner of the SharedRecord stored at key N, to O; its
\* kind, name, contentHash and timestamp are as before, and the
\* RestrictedRecord of N, every IndexEntry and every other asset's records
\* are unchanged.
C6_OwnerOnlyMutation ==
    [][Succeeded(last', "transferFile")
       => LET p == Payload(last', "file_owner") IN
          /\ HasSharedRecord(shared, p.name)
          /\ SameOutside(shared, shared', {p.name})
          /\ HasSharedRecord(shared', p.name)
          /\ DOMAIN shared'[p.name].obj = DOMAIN shared[p.name].obj
          /\ shared'[p.name].obj.owner = p.owner
          /\ \A f \in DOMAIN shared[p.name].obj \ {"owner"} :
                shared'[p.name].obj[f] = shared[p.name].obj[f]
          /\ restricted' = restricted]_vars

\* C6's case: a transfer to orgB has succeeded on an indexed asset while
\* another asset is alive
C6_Witness ==
    /\ Succeeded(last, "transferFile")
    /\ LET p == Payload(last, "file_owner") IN
         /\ p.owner = orgB
         /\ shared[p.name].obj.owner = orgB
         /\ IndexKey(shared[p.name].obj.ipfshash, p.name) \in DOMAIN shared
         /\ \E k \in DOMAIN shared \ {p.name} : HasSharedRecord(shared, k)

\* C7 (delete end state): after a successful delete(N) of an asset whose
\* stored contentHash is H, the shared-partition key N, the IndexEntry key of
\* (H, N) and the restricted-partition key N are absent, and every other
\* entry of both partitions is unchanged.
C7_DeleteEndState ==
    [][Succeeded(last', "delete")
       => LET n == Payload(last', "file_delete").name IN
          /\ HasSharedRecord(shared, n)
          /\ n \notin DOMAIN shared'
          /\ IndexKey(shared[n].obj.ipfshash, n) \notin DOMAIN shared'
          /\ n \notin DOMAIN restricted'
          /\ SameOutside(shared, shared', {n, IndexKey(shared[n].obj.ipfshash, n)})
          /\ SameOutside(restricted, restricted', {n})]_vars

\* C7's case: a delete has succeeded and left another asset with its index
\* entry and its private details
C7_Witness ==
    /\ Succeeded(last, "delete")
    /\ Payload(last, "file_delete").name \notin DOMAIN shared
    /\ \E k \in DOMAIN shared :
          /\ HasSharedRecord(shared, k)
          /\ IndexKey(shared[k].obj.ipfshash, k) \in DOMAIN shared
          /\ k \in DOMAIN restricted

\* C8 (no partial success): an invocation returns success only when every
\* stub call it made was accepted by the adapter; a create that returns
\* success has written SharedRecord, RestrictedRecord and IndexEntry.
C8_NoPartialSuccess ==
    /\ last.resp.status = "OK" => AllCallsOk(last)
    /\ Succeeded(last, "initFile") => Len(last.writes) = 3

\* C9 (argument shape): an operation called with the wrong argument shape
\* fails with ProtocolError before any validation or ledger access: create,
\* transfer and delete whenever a positional argument is supplied, the reads
\* and digests unless exactly 1 is, rangeScan unless exactly 2 are.
C9_ArgumentShape ==
    LET n == Len(last.args)
        wrong ==
            \/ last.function \in {"initFile", "transferFile", "delete"} /\ n # 0
            \/ /\ last.function \in {"readFile", "readFilePrivateDetails",
                                      "getFileHash", "getFilePrivateDetailsHash"}
               /\ n # 1
            \/ last.function = "getFilesByRange" /\ n # 2
    IN wrong => (ProtocolError(last.resp) /\ last.calls = <<>>)

\* a stub call that reads the ledger
ReadsLedger(l) ==
    \E i \in 1..Len(l.calls) : l.calls[i].fn # "GetTransient"

\* C10 as stated (absent target): transfer and delete (with valid payloads)
\* on a name that has no SharedRecord in the shared partition fail with
\* NotFound and leave both partitions unchanged; a transfer with an empty
\* name or owner is rejected before the ledger is read.
C10_AbsentTargetNotFound ==
    [][/\ \A op \in {<<"transferFile", "file_owner">>, <<"delete", "file_delete">>} :
            (/\ SideChannelCall(last', op[1], op[2])
             /\ AllCallsOk(last')
             /\ \A f \in DOMAIN Payload(last', op[2]) : Payload(last', op[2])[f] # <<>>
             /\ ~HasSharedRecord(shared, Payload(last', op[2]).name))
            => (/\ NotFound(last'.resp)
                /\ shared' = shared
                /\ restricted' = restricted)
       /\ (/\ SideChannelCall(last', "transferFile", "file_owner")
           /\ \E f \in DOMAIN Payload(last', "file_owner") :
                 Payload(last', "file_owner")[f] = <<>>)
            => (last'.resp.status = "ERROR" /\ ~ReadsLedger(last'))]_vars

\* C10 as amended: transfer and delete (with valid payloads) on a name that
\* has no SharedRecord fail and leave both partitions unchanged; they fail
\* with NotFound when nothing is stored under the name and the adapter
\* reports no error, and with a decoding error when the name is the key of
\* an IndexEntry; a transfer with an empty name or owner is rejected before
\* the ledger is read.
C10_AbsentTarget ==
    [][/\ \A op \in {<<"transferFile", "file_owner">>, <<"delete", "file_delete">>} :
            (/\ SideChannelCall(last', op[1], op[2])
             /\ \A f \in DOMAIN Payload(last', op[2]) : Payload(last', op[2])[f] # <<>>
             /\ ~HasSharedRecord(shared, Payload(last', op[2]).name))
            => (/\ last'.resp.status = "ERROR"
                /\ shared' = shared
                /\ restricted' = restricted
                /\ AllCallsOk(last') =>
                      IF Payload(last', op[2]).name \in DOMAIN shared
                      THEN last'.resp.message \in {"Failed to decode JSON of: ", "err.Error()"}
                      ELSE NotFound(last'.resp))
       /\ (/\ SideChannelCall(last', "transferFile", "file_owner")
           /\ \E f \in DOMAIN Payload(last', "file_owner") :
                 Payload(last', "file_owner")[f] = <<>>)
            => (last'.resp.status = "ERROR" /\ ~ReadsLedger(last'))]_vars

\* C10's case: a delete of a name under which nothing is stored was refused
\* as NotFound while other entries are stored
C10_Witness ==
    /\ SideChannelCall(last, "delete", "file_delete")
    /\ NotFound(last.resp)
    /\ Payload(last, "file_delete").name \notin DOMAIN shared
    /\ DOMAIN shared # {}
    /\ DOMAIN restricted # {}

\* the keys of the members of a range scan's result, in the order returned
ResultKeys(resp) == [i \in 1..Len(resp.payload.results) |-> resp.payload.results[i].Key]

\* k1 <= k2 in the order of the keys
KeyLeq(k1, k2) == k1 = k2 \/ KeyLess(k1, k2)

\* results lists exactly the entries of the shared partition whose key is in
\* keys, each once, in ascending key order, each with the stored bytes
ListsExactly(results, keys) ==
    /\ {results[i].Key : i \in 1..Len(results)} = keys
    /\ \A i \in 1..(Len(results) - 1) : KeyLess(results[i].Key, results[i + 1].Key)
    /\ \A i \in 1..Len(results) : results[i].Record = shared[results[i].Key]

\* C11 as stated (range scan result): rangeScan(startKey, endKey) returns
\* exactly the shared-partition entries whose key k satisfies
\* startKey <= k < endKey, each exactly once, in ascending key order,
\* IndexEntry sentinel keys included, and no restricted-partition entry.
C11_RangeScanHalfOpen ==
    (/\ last.function = "getFilesByRange"
     /\ Len(last.args) = 2
     /\ last.resp.status = "OK")
    => ListsExactly(last.resp.payload.results,
                    {k \in DOMAIN shared :
                        KeyLeq(last.args[1], k) /\ KeyLess(k, last.args[2])})

\* C11 as amended: rangeScan(startKey, endKey) fails when startKey or endKey
\* begins with U+0000; otherwise, the adapter reporting no error, it returns
\* exactly the shared-partition entries whose key k satisfies startKey <= k
\* (U+0001 <= k when startKey is empty) and k < endKey (no upper limit when
\* endKey is empty), each exactly once, in ascending key order, with the
\* stored bytes; no IndexEntry sentinel key is ever among them.
C11_RangeScanResult ==
    (last.function = "getFilesByRange" /\ Len(last.args) >= 2)
    => LET startKey == last.args[1]
           endKey == last.args[2]
           from == IF startKey = <<>> THEN <<1>> ELSE startKey
           beginsWithNul(k) == k # <<>> /\ k[1] = 0
       IN
       /\ (beginsWithNul(startKey) \/ beginsWithNul(endKey)) => last.resp.status = "ERROR"
       /\ (AllCallsOk(last) /\ last.calls # <<>>) => last.resp.status = "OK"
       /\ last.resp.status = "OK" =>
             /\ ListsExactly(last.resp.payload.results,
                             {k \in DOMAIN shared :
                                 /\ KeyLeq(from, k)
                                 /\ endKey = <<>> \/ KeyLess(k, endKey)})
             /\ \A i \in 1..Len(last.resp.payload.results) :
                   ~beginsWithNul(last.resp.payload.results[i].Key)

\* C11's case: a scan from fileA on has returned two records in order while
\* the shared partition holds their index entries, which it left out
C11_Witness ==
    /\ Succeeded(last, "getFilesByRange")
    /\ last.args = <<fileA, <<>>>>
    /\ ResultKeys(last.resp) = <<fileA, fileB>>
    /\ \E h1 \in AssetHashes, h2 \in AssetHashes :
          {IndexKey(h1, fileA), IndexKey(h2, fileB)} \subseteq DOMAIN shared

\* the scan of the index entries of hash h, the adapter reporting no error
IndexScan(h) == getFilesByRange(IndexScanBounds(h), NoTransient, 0).resp

\* the index keys of the live assets whose contentHash is h
LiveIndexKeys(h) ==
    {IndexKey(h, n) : n \in {k \in DOMAIN shared :
                                HasSharedRecord(shared, k) /\ shared[k].obj.ipfshash = h}}

\* C12 (index scan): after a successful create with hash H and name N, the
\* rangeScan from buildKey("hash~name", [H, ""]) to
\* buildKey("hash~name", [H, "\xff"]) succeeds and lists the IndexEntry of N
\* and no entry of an asset whose hash differs from H; after a successful
\* delete(N) the scan of each hash lists exactly the IndexEntries of the live
\* assets of that hash: not that of N, and none when no asset has the hash.
C12_IndexScan ==
    /\ Succeeded(last, "initFile") =>
          LET p == Payload(last, "file") IN
          /\ IndexScan(p.ipfshash).status = "OK"
          /\ \E i \in DOMAIN ResultKeys(IndexScan(p.ipfshash)) :
                ResultKeys(IndexScan(p.ipfshash))[i] = IndexKey(p.ipfshash, p.name)
          /\ \A i \in DOMAIN ResultKeys(IndexScan(p.ipfshash)) :
                ResultKeys(IndexScan(p.ipfshash))[i] \in LiveIndexKeys(p.ipfshash)
    /\ Succeeded(last, "delete") =>
          \A h \in AssetHashes :
              /\ IndexScan(h).status = "OK"
              /\ {ResultKeys(IndexScan(h))[i] : i \in DOMAIN ResultKeys(IndexScan(h))}
                    = LiveIndexKeys(h)

\* the responses of digestShared(n) and digestRestricted(n), the adapter
\* reporting no error
DigestShared(n) == getFileHash(<<n>>, NoTransient, 0).resp
DigestRestricted(n) == getFilePrivateDetailsHash(<<n>>, NoTransient, 0).resp

\* the keys an invocation of the model can address or write
LedgerKeys == ArgKeys \cup {IndexKey(h, n) : h \in AssetHashes, n \in AssetNames}

\* the invocation l was function called with one positional argument, and
\* the adapter answered its call without error
OneArgumentCall(l, function) ==
    /\ l.function = function
    /\ Len(l.args) = 1
    /\ l.calls # <<>>
    /\ AllCallsOk(l)

\* C13 (digest equivalence): over every step, the fingerprint digestShared
\* returns for a key is unchanged exactly when the bytes stored under the key
\* in the shared partition are (so two calls with no mutation between them
\* agree, a transfer to the current owner leaves the fingerprint of N as it
\* was and a transfer to another owner changes it); digestShared(N) and
\* digestRestricted(N) return the fingerprint of the bytes stored under N in
\* their partition and fail NotFound exactly when nothing is stored there.
C13_DigestEquivalence ==
    [][/\ \A n \in LedgerKeys :
            (DigestShared(n)' = DigestShared(n))
                <=> (GetPrivateData(collectionFiles, n)'
                        = GetPrivateData(collectionFiles, n))
       /\ Succeeded(last', "transferFile") =>
            \A n \in LedgerKeys :
                n = Payload(last', "file_owner").name =>
                    ((DigestShared(n)' = DigestShared(n))
                        <=> (Payload(last', "file_owner").owner = shared[n].obj.owner))
       /\ OneArgumentCall(last', "getFileHash") =>
            /\ NotFound(last'.resp) <=> last'.args[1] \notin DOMAIN shared
            /\ last'.args[1] \in DOMAIN shared =>
                  last'.resp = Success(GetPrivateDataHash(collectionFiles, last'.args[1]))
       /\ OneArgumentCall(last', "getFilePrivateDetailsHash") =>
            /\ NotFound(last'.resp) <=> last'.args[1] \notin DOMAIN restricted
            /\ last'.args[1] \in DOMAIN restricted =>
                  last'.resp = Success(GetPrivateDataHash(collectionFilePrivateDetails,
                                                          last'.args[1]))]_vars

\* C13's case: digestShared has returned the fingerprint of a record owned by
\* orgB, and it differs from the fingerprint of the record's private details
C13_Witness ==
    /\ Succeeded(last, "getFileHash")
    /\ HasSharedRecord(shared, last.args[1])
    /\ shared[last.args[1]].obj.owner = orgB
    /\ last.resp.payload = [hashOf |-> shared[last.args[1]]]
    /\ last.resp # DigestRestricted(last.args[1])

\* the field rules of a SharedRecord and of a RestrictedRecord
ValidSharedRecord(v) ==
    /\ DOMAIN v.obj = {"docType", "name", "ipfshash", "timestamp", "owner"}
    /\ v.obj.docType = "file"
    /\ v.obj.name # <<>>
    /\ v.obj.ipfshash # <<>>
    /\ v.obj.timestamp > 0
    /\ v.obj.owner # <<>>
ValidRestrictedRecord(v) ==
    /\ DOMAIN v.obj = {"docType", "name", "folio"}
    /\ v.obj.name # <<>>
    /\ v.obj.folio > 0

\* C14 (stored-record validity): in every reachable ledger state, every
\* SharedRecord has kind "file", a non-empty name, a non-empty contentHash, a
\* timestamp > 0 and a non-empty owner, and every RestrictedRecord has a
\* folio > 0: no create or transfer stores a record that breaks these rules.
C14_StoredRecordValidity ==
    /\ \A k \in DOMAIN shared : shared[k].json => ValidSharedRecord(shared[k])
    /\ \A k \in DOMAIN restricted :
          restricted[k].json /\ ValidRestrictedRecord(restricted[k])

\* C14's case: a transfer has succeeded and two assets are stored, each with
\* its private details
C14_Witness ==
    /\ Succeeded(last, "transferFile")
    /\ last.writes # <<>>
    /\ \A n \in AssetNames :
          HasSharedRecord(shared, n) /\ HasRestrictedRecord(restricted, n)

---------------------------------------------------------------------------
(* The registry over an adapter that commits each put and delete when it   *)
(* accepts it: an invocation that stops at a stub call leaves the writes   *)
(* accepted before it. The handlers are the same.                          *)

\* create and delete payloads of this specification
PerKeyFileMaps ==
    {Transient("file", Json([name |-> n, ipfshash |-> h, size |-> 1,
                             owner |-> orgA, folio |-> 1])) :
        n \in InNames \ {<<>>}, h \in InHashes \ {<<>>}}
PerKeyFileDeleteMaps ==
    {Transient("file_delete", Json([name |-> n])) : n \in InNames \ {<<>>}}

InvokeInitFilePerKey ==
    /\ last = Idle
    /\ \E transMap \in PerKeyFileMaps, fail \in StubFailures("initFile") :
          LET r == Invoke("initFile", <<>>, transMap, fail) IN
          /\ shared' = ApplyWrites(shared, r.writes, collectionFiles)
          /\ restricted' = ApplyWrites(restricted, r.writes, collectionFilePrivateDetails)
          /\ last' = Invoked("initFile", <<>>, transMap, r)

InvokeDeletePerKey ==
    /\ last = Idle
    /\ \E transMap \in PerKeyFileDeleteMaps, fail \in StubFailures("delete") :
          LET r == Invoke("delete", <<>>, transMap, fail) IN
          /\ shared' = ApplyWrites(shared, r.writes, collectionFiles)
          /\ restricted' = ApplyWrites(restricted, r.writes, collectionFilePrivateDetails)
          /\ last' = Invoked("delete", <<>>, transMap, r)

NextPerKey ==
    \/ InvokeInitFilePerKey
    \/ InvokeDeletePerKey
    \/ Deliver

SpecPerKey == Init /\ [][NextPerKey]_vars

\* I1 and I2 of a ledger state
I1(sh, rs) ==
    \A k \in DOMAIN sh \cup DOMAIN rs :
        HasSharedRecord(sh, k) <=> HasRestrictedRecord(rs, k)
I2(sh) ==
    /\ \A n \in DOMAIN sh :
          IsSharedRecord(sh[n]) => IndexKey(sh[n].obj.ipfshash, n) \in DOMAIN sh
    /\ \A k \in DOMAIN sh :
          ~sh[k].json =>
             \E n \in DOMAIN sh :
                IsSharedRecord(sh[n]) /\ k = IndexKey(sh[n].obj.ipfshash, n)

\* the invocation l of function stopped with an error after the adapter had
\* accepted n of its writes
StoppedAfter(l, function, n) ==
    l.function = function /\ l.resp.status = "ERROR" /\ Len(l.writes) = n

\* C15 (non-atomic adapter): over an adapter that commits each put and delete
\* by itself, a create or a delete that stops after one or two of its writes,
\* started where I1 and I2 hold, leaves a state where I1 or I2 does not, and
\* issues no write that would undo the ones accepted: a create stopped after
\* its first write leaves a SharedRecord with no RestrictedRecord and no
\* IndexEntry, a delete stopped after its second leaves a RestrictedRecord
\* with no SharedRecord.
C15_NonAtomicAdapter ==
    [][(I1(shared, restricted) /\ I2(shared)) =>
         /\ (/\ last'.function \in {"initFile", "delete"}
             /\ last'.resp.status = "ERROR"
             /\ last'.writes # <<>>)
            => (/\ ~(I1(shared', restricted') /\ I2(shared'))
                /\ \A i \in 1..Len(last'.writes) :
                      last'.writes[i].del = (last'.function = "delete"))
         /\ StoppedAfter(last', "initFile", 1) =>
               LET p == Payload(last', "file") IN
               /\ HasSharedRecord(shared', p.name)
               /\ p.name \notin DOMAIN restricted'
               /\ IndexKey(p.ipfshash, p.name) \notin DOMAIN shared'
         /\ StoppedAfter(last', "delete", 2) =>
               LET n == Payload(last', "file_delete").name IN
               /\ n \notin DOMAIN shared'
               /\ HasRestrictedRecord(restricted', n)
               /\ restricted' = restricted]_vars

\* C15's case: an interrupted create has left a SharedRecord with no
\* RestrictedRecord and no IndexEntry
C15_Witness ==
    /\ StoppedAfter(last, "initFile", 1)
    /\ LET p == Payload(last, "file") IN
         /\ HasSharedRecord(shared, p.name)
         /\ ~HasRestrictedRecord(restricted, p.name)
         /\ IndexKey(p.ipfshash, p.name) \notin DOMAIN shared
    /\ ~I1(shared, restricted)
    /\ ~I2(shared)

\* the calls of an invocation that put or delete, in the order issued
RECURSIVE WriteCalls(_)
WriteCalls(calls) ==
    IF calls = <<>> THEN <<>>
    ELSE IF Head(calls).fn \in {"PutPrivateData", "DelPrivateData"}
         THEN <<[fn |-> Head(calls).fn, collection |-> Head(calls).collection,
                 key |-> Head(calls).key]>> \o WriteCalls(Tail(calls))
         ELSE WriteCalls(Tail(calls))

\* s is an initial part of t
IsPrefix(s, t) == Len(s) <= Len(t) /\ s = SubSeq(t, 1, Len(s))

\* every call but the last was answered without error
OnlyLastMayFail(l) == \A i \in 1..(Len(l.calls) - 1) : l.calls[i].ok

\* the puts of a create of name n with hash h, in the order of the claim
CreateOrder(h, n) ==
    <<[fn |-> "PutPrivateData", collection |-> collectionFiles, key |-> n],
      [fn |-> "PutPrivateData", collection |-> collectionFilePrivateDetails, key |-> n],
      [fn |-> "PutPrivateData", collection |-> collectionFiles, key |-> IndexKey(h, n)]>>

\* C16 (create write order): a create issues its writes in the order
\* SharedRecord (shared partition, key name), RestrictedRecord (restricted
\* partition, key name), IndexEntry (shared partition), each only after the
\* existence check found the name unused and the previous call returned
\* without error; hence after each of its writes the RestrictedRecord exists
\* only if the SharedRecord does and the IndexEntry only if both do.
C16_CreateWriteOrder ==
    [][(SideChannelCall(last', "initFile", "file") /\ WriteCalls(last'.calls) # <<>>)
       => LET p == Payload(last', "file")
              steps == [j \in 0..Len(last'.writes) |->
                          [sh |-> ApplyWrites(shared, SubSeq(last'.writes, 1, j),
                                              collectionFiles),
                           rs |-> ApplyWrites(restricted, SubSeq(last'.writes, 1, j),
                                              collectionFilePrivateDetails)]]
          IN
          /\ IsPrefix(WriteCalls(last'.calls), CreateOrder(p.ipfshash, p.name))
          /\ OnlyLastMayFail(last')
          /\ last'.calls[2] = Call("GetPrivateData", collectionFiles, p.name, TRUE)
          /\ p.name \notin DOMAIN shared
          /\ IsPrefix([i \in 1..Len(last'.writes) |->
                          [fn |-> "PutPrivateData",
                           collection |-> last'.writes[i].collection,
                           key |-> last'.writes[i].key]],
                      WriteCalls(last'.calls))
          /\ \A j \in 0..Len(last'.writes) :
                /\ HasRestrictedRecord(steps[j].rs, p.name)
                      => HasSharedRecord(steps[j].sh, p.name)
                /\ IndexKey(p.ipfshash, p.name) \in DOMAIN steps[j].sh
                      => (/\ HasSharedRecord(steps[j].sh, p.name)
                          /\ HasRestrictedRecord(steps[j].rs, p.name))]_vars

\* C16's case: a create has issued its three writes while another asset is
\* stored
C16_Witness ==
    /\ Succeeded(last, "initFile")
    /\ Len(WriteCalls(last.calls)) = 3
    /\ Len(last.writes) = 3
    /\ \E k \in DOMAIN shared \ {Payload(last, "file").name} : HasSharedRecord(shared, k)

\* the deletes of a delete of name n whose fetched record has hash h and
\* name m, in the order of the claim
DeleteOrder(n, h, m) ==
    <<[fn |-> "DelPrivateData", collection |-> collectionFiles, key |-> n],
      [fn |-> "DelPrivateData", collection |-> collectionFiles, key |-> IndexKey(h, m)],
      [fn |-> "DelPrivateData", collection |-> collectionFilePrivateDetails, key |-> n]>>

\* C17 (delete step order): a delete first reads the SharedRecord, failing
\* with no write when it is absent, then deletes the shared-partition key
\* name, then the IndexEntry computed from the fetched record, then the
\* restricted-partition key name; a failure the adapter reports at any step
\* stops the invocation with an error and none of the later deletes is issued.
C17_DeleteStepOrder ==
    [][SideChannelCall(last', "delete", "file_delete")
       => LET n == Field(Payload(last', "file_delete"), "name", <<>>) IN
          /\ ~HasSharedRecord(shared, n) =>
                (last'.resp.status = "ERROR" /\ WriteCalls(last'.calls) = <<>>)
          /\ OnlyLastMayFail(last')
          /\ ~AllCallsOk(last') => last'.resp.status = "ERROR"
          /\ WriteCalls(last'.calls) # <<>> =>
                /\ last'.calls[2] = Call("GetPrivateData", collectionFiles, n, TRUE)
                /\ IsPrefix(WriteCalls(last'.calls),
                            DeleteOrder(n, shared[n].obj.ipfshash, shared[n].obj.name))
          /\ last'.writes =
                [i \in 1..Len(last'.writes) |->
                    DelWrite(WriteCalls(last'.calls)[i].collection,
                             WriteCalls(last'.calls)[i].key)]
          /\ Len(last'.writes) =
                Cardinality({i \in 1..Len(last'.calls) :
                                last'.calls[i].fn = "DelPrivateData" /\ last'.calls[i].ok})
          /\ last'.resp.status = "OK" => Len(WriteCalls(last'.calls)) = 3]_vars

\* C17's case: the adapter has refused the delete of the index entry, and
\* the delete of the private details was not issued
C17_Witness ==
    /\ SideChannelCall(last, "delete", "file_delete")
    /\ last.resp.status = "ERROR"
    /\ Len(last.calls) = 4
    /\ ~last.calls[4].ok
    /\ last.calls[4].key = IndexKey(shared[Payload(last, "file_delete").name].obj.ipfshash,
                                    Payload(last, "file_delete").name)
    /\ Len(WriteCalls(last.calls)) = 2

\* C18 (key/name agreement): in every reachable state the SharedRecord stored
\* at shared-partition key K has name K and the RestrictedRecord stored at
\* restricted-partition key K has name K; so a transfer, which writes back
\* under the name of the record it read, writes the key it read and no other.
C18_KeyNameAgreement ==
    /\ \A k \in DOMAIN shared : IsSharedRecord(shared[k]) => shared[k].obj.name = k
    /\ \A k \in DOMAIN restricted :
          IsRestrictedRecord(restricted[k]) => restricted[k].obj.name = k
    /\ Succeeded(last, "transferFile") =>
          /\ Len(last.writes) = 1
          /\ last.writes[1].key = Payload(last, "file_owner").name
          /\ last.calls[3].key = last.calls[2].key
          /\ last.writes[1].value.obj.name = last.writes[1].key

\* C18's case: a transfer has written back the record it read, under its
\* name, while a record of another name is stored
C18_Witness ==
    /\ Succeeded(last, "transferFile")
    /\ LET n == Payload(last, "file_owner").name IN
         /\ shared[n] = last.writes[1].value
         /\ shared[n].obj.name = n
         /\ restricted[n].obj.name = n
         /\ \E k \in DOMAIN shared \ {n} : HasSharedRecord(shared, k) /\ shared[k].obj.name = k

\* an IndexEntry sentinel is stored at key k of the shared partition sh
IsSentinel(sh, k) == k \in DOMAIN sh /\ ~sh[k].json

\* the invocation l is a readShared, transfer or delete addressed by a name
NameAddressed(l) ==
    \/ l.function = "readFile" /\ Len(l.args) = 1
    \/ SideChannelCall(l, "transferFile", "file_owner")
    \/ SideChannelCall(l, "delete", "file_delete")
AddressedName(l) ==
    IF l.function = "readFile" THEN l.args[1]
    ELSE IF l.function = "transferFile"
         THEN Field(Payload(l, "file_owner"), "name", <<>>)
         ELSE Field(Payload(l, "file_delete"), "name", <<>>)

\* the invocation l issued a stub call on key k of the shared partition
OperatesOn(l, k) ==
    \E i \in 1..Len(l.calls) :
        /\ l.calls[i].fn \in {"GetPrivateData", "PutPrivateData", "DelPrivateData"}
        /\ l.calls[i].collection = collectionFiles
        /\ l.calls[i].key = k

\* k begins with U+0000, the first character of every composite key
InCompositeKeyNamespace(k) == k # <<>> /\ k[1] = compositeKeyNamespace[1]

\* no IndexEntry key is the key of a SharedRecord; the index write of a
\* create overwrites no SharedRecord and the index delete of a delete
\* removes none
IndexKeysApart ==
    /\ \A k \in DOMAIN shared' :
          IsSharedRecord(shared'[k]) <=> ~InCompositeKeyNamespace(k)
    /\ \A k \in DOMAIN shared' : IsSentinel(shared', k) <=> InCompositeKeyNamespace(k)
    /\ Succeeded(last', "initFile") =>
          \A i \in 1..Len(last'.writes) :
              last'.writes[i].value = Raw(<<0>>) =>
                 /\ ~HasSharedRecord(shared, last'.writes[i].key)
                 /\ last'.writes[i].key # Payload(last', "file").name
    /\ Succeeded(last', "delete") =>
          /\ ~HasSharedRecord(shared, last'.writes[2].key)
          /\ \A k \in DOMAIN shared \ DOMAIN shared' :
                HasSharedRecord(shared, k) => k = Payload(last', "file_delete").name

\* C19 as stated (key-space separation): an IndexEntry key never equals the
\* key of a SharedRecord, so the index write of create overwrites no
\* SharedRecord and the index delete of delete removes none, and readShared,
\* transfer and delete addressed by a name never operate on an IndexEntry
\* sentinel.
C19_NeverOnSentinel ==
    [][/\ IndexKeysApart
       /\ NameAddressed(last') =>
             ~(/\ OperatesOn(last', AddressedName(last'))
               /\ IsSentinel(shared, AddressedName(last')))]_vars

\* C19 as amended: an IndexEntry key never equals the key of a SharedRecord
\* (IndexEntry keys begin with U+0000, the keys of SharedRecords do not), so
\* the index write of create overwrites no SharedRecord and the index delete
\* of delete removes none; readShared, transfer and delete addressed by a
\* name that does not begin with U+0000 never operate on an IndexEntry
\* sentinel; addressed by the key of a stored IndexEntry, readShared returns
\* the sentinel byte and transfer and delete fail decoding it, writing nothing.
C19_KeySpaceSeparation ==
    [][/\ IndexKeysApart
       /\ (NameAddressed(last') /\ ~InCompositeKeyNamespace(AddressedName(last')))
            => ~(/\ OperatesOn(last', AddressedName(last'))
                 /\ IsSentinel(shared, AddressedName(last')))
       /\ (/\ NameAddressed(last')
           /\ IsSentinel(shared, AddressedName(last'))
           /\ AllCallsOk(last')
           /\ last'.function = "transferFile" =>
                 Field(Payload(last', "file_owner"), "owner", <<>>) # <<>>)
            => (/\ OperatesOn(last', AddressedName(last'))
                /\ IF last'.function = "readFile"
                   THEN last'.resp = Success(Raw(<<0>>))
                   ELSE /\ last'.resp.status = "ERROR"
                        /\ last'.resp.message \in {"Failed to decode JSON of: ",
                                                    "err.Error()"}
                /\ last'.writes = <<>>
                /\ shared' = shared
                /\ restricted' = restricted)]_vars

\* C19's case: readShared addressed by the key of a stored IndexEntry has
\* returned the sentinel byte, while the asset of that entry is stored
C19_Witness ==
    /\ Succeeded(last, "readFile")
    /\ last.args = <<indexKeyName>>
    /\ last.resp.payload = Raw(<<0>>)
    /\ HasSharedRecord(shared, fileA)
    /\ IsSentinel(shared, indexKeyName)

\* the operations that read, and those that create, change or remove entries
ReadOperations ==
    {"readFile", "readFilePrivateDetails", "getFileHash", "getFilePrivateDetailsHash",
     "getFilesByRange"}
WriteOperations == {"initFile", "transferFile", "delete"}

\* C20 (read-only frame): readShared, readRestricted, digestShared,
\* digestRestricted and rangeScan, whether they succeed or fail, and an
\* invocation with an unknown operation name, which fails with
\* ProtocolError, issue no put or delete and leave every key of both
\* partitions unchanged; only a create, transfer or delete changes an entry.
C20_ReadOnlyFrame ==
    [][/\ last'.function \in ReadOperations =>
             (NoLedgerWrite(last') /\ shared' = shared /\ restricted' = restricted)
       /\ (last' # Idle /\ last'.function \notin ReadOperations \cup WriteOperations) =>
             /\ ProtocolError(last'.resp)
             /\ last'.resp.message = "Received unknown function invocation"
             /\ last'.calls = <<>>
             /\ NoLedgerWrite(last')
             /\ shared' = shared
             /\ restricted' = restricted
       /\ (shared' # shared \/ restricted' # restricted) =>
             (last'.function \in WriteOperations /\ last'.resp.status = "OK")]_vars

\* C20's case: an unknown operation was refused while the ledger holds an
\* asset with its private details
C20_Witness ==
    /\ last.function = "unknownFunction"
    /\ ProtocolError(last.resp)
    /\ \E k \in DOMAIN shared : HasSharedRecord(shared, k) /\ HasRestrictedRecord(restricted, k)

====
